---- MODULE Spec2Model ----
(***************************************************************************)
(* Magnetic spiral structure generator (spiral-3d-v4-xsf-claude.py).       *)
(*                                                                         *)
(* generate_spiral_structure and create_xsf_file as a state machine.  The  *)
(* numbers of the program are Python/NumPy floats, i.e. IEEE-754 binary64  *)
(* values; they are modelled here bit for bit (53-bit significand, round   *)
(* to nearest, ties to even) on top of arbitrary-size naturals kept as     *)
(* little-endian sequences of 14-bit limbs, because the integers of the    *)
(* model checker are 32 bits wide.  Exponent range is not modelled: the    *)
(* inputs are drawn from small sets whose values stay far away from        *)
(* overflow and underflow.                                                 *)
(***************************************************************************)
EXTENDS Integers, Sequences, FiniteSets, TLC

(***************************************************************************)
(* Arbitrary-size naturals: <<l1, ..., ln>> is l1 + l2*Base + ... with no  *)
(* leading (most significant) zero limb; zero is <<>>.                     *)
(***************************************************************************)
Base == 16384

LimbBits == 14

\* 2^k for k in 0..LimbBits
Pow2(k) == <<1, 2, 4, 8, 16, 32, 64, 128, 256, 512, 1024, 2048, 4096, 8192, 16384>>[k + 1]

Limb(a, n) == IF n <= Len(a) THEN a[n] ELSE 0

RECURSIVE BNorm(_)
BNorm(a) ==
    IF Len(a) = 0 THEN a
    ELSE IF a[Len(a)] = 0 THEN BNorm(SubSeq(a, 1, Len(a) - 1)) ELSE a

\* a native integer 0 <= n < 2^31
BFromInt(n) ==
    IF n = 0 THEN <<>>
    ELSE IF n < Base THEN <<n>>
    ELSE IF n < Base * Base THEN <<n % Base, n \div Base>>
    ELSE <<n % Base, (n \div Base) % Base, n \div (Base * Base)>>

RECURSIVE BAddC(_, _, _, _)
BAddC(a, b, n, c) ==
    IF n > Len(a) /\ n > Len(b)
    THEN (IF c = 0 THEN <<>> ELSE <<c>>)
    ELSE LET t == Limb(a, n) + Limb(b, n) + c
         IN  <<t % Base>> \o BAddC(a, b, n + 1, t \div Base)

BAdd(a, b) == BAddC(a, b, 1, 0)

\* a - b for a >= b
RECURSIVE BSubC(_, _, _, _)
BSubC(a, b, n, c) ==
    IF n > Len(a) THEN <<>>
    ELSE LET t == a[n] - Limb(b, n) - c
         IN  IF t < 0 THEN <<t + Base>> \o BSubC(a, b, n + 1, 1)
                      ELSE <<t>> \o BSubC(a, b, n + 1, 0)

BSub(a, b) == BNorm(BSubC(a, b, 1, 0))

\* -1, 0, 1 as a < b, a = b, a > b
RECURSIVE BCmpAt(_, _, _)
BCmpAt(a, b, n) ==
    IF n = 0 THEN 0
    ELSE IF a[n] < b[n] THEN -1
    ELSE IF a[n] > b[n] THEN 1
    ELSE BCmpAt(a, b, n - 1)

BCmp(a, b) ==
    IF Len(a) < Len(b) THEN -1
    ELSE IF Len(a) > Len(b) THEN 1
    ELSE BCmpAt(a, b, Len(a))

RECURSIVE BMulSmallC(_, _, _, _)
BMulSmallC(a, d, n, c) ==
    IF n > Len(a)
    THEN (IF c = 0 THEN <<>> ELSE <<c>>)
    ELSE LET t == a[n] * d + c
         IN  <<t % Base>> \o BMulSmallC(a, d, n + 1, t \div Base)

\* a * d for 0 <= d <= Base
BMulSmall(a, d) == IF d = 0 THEN <<>> ELSE BMulSmallC(a, d, 1, 0)

BShlLimbs(a, w) == IF Len(a) = 0 THEN a ELSE [x \in 1..w |-> 0] \o a

\* the sum of a[x] * b[n + 1 - x] over x in lo..hi (at most 7 terms)
RECURSIVE BColumn(_, _, _, _, _)
BColumn(a, b, n, lo, hi) ==
    IF lo > hi THEN 0 ELSE a[lo] * b[n + 1 - lo] + BColumn(a, b, n, lo + 1, hi)

RECURSIVE BMulC(_, _, _, _)
BMulC(a, b, n, c) ==
    IF n >= Len(a) + Len(b)
    THEN BFromInt(c)
    ELSE LET lo == IF n > Len(b) THEN n + 1 - Len(b) ELSE 1
             hi == IF n < Len(a) THEN n ELSE Len(a)
             t  == c + BColumn(a, b, n, lo, hi)
         IN  <<t % Base>> \o BMulC(a, b, n + 1, t \div Base)

\* a * b, column by column
BMul(a, b) == IF Len(a) = 0 \/ Len(b) = 0 THEN <<>> ELSE BMulC(a, b, 1, 0)

\* a * 2^sh
BShl(a, sh) == BShlLimbs(BMulSmall(a, Pow2(sh % LimbBits)), sh \div LimbBits)

\* a \div d for 0 < d <= Base, most significant limb first
RECURSIVE BDivSmallR(_, _, _, _)
BDivSmallR(a, d, n, r) ==
    IF n = 0 THEN <<>>
    ELSE LET t == r * Base + a[n]
         IN  BDivSmallR(a, d, n - 1, t % d) \o <<t \div d>>

BDivSmall(a, d) == IF d = 1 THEN a ELSE BNorm(BDivSmallR(a, d, Len(a), 0))

\* a \div 2^sh
BShr(a, sh) ==
    LET w == sh \div LimbBits
    IN  IF w >= Len(a) THEN <<>>
        ELSE BDivSmall(SubSeq(a, w + 1, Len(a)), Pow2(sh % LimbBits))

\* a % 2^sh # 0, for sh less than the bit length of a
BLowNonZero(a, sh) ==
    LET w == sh \div LimbBits
    IN  \/ \E x \in 1..w : a[x] # 0
        \/ a[w + 1] % Pow2(sh % LimbBits) # 0

RECURSIVE IntBitLen(_)
IntBitLen(n) == IF n = 0 THEN 0 ELSE 1 + IntBitLen(n \div 2)

BBitLen(a) ==
    IF Len(a) = 0 THEN 0 ELSE (Len(a) - 1) * LimbBits + IntBitLen(a[Len(a)])

(***************************************************************************)
(* Long division (Knuth's algorithm D with the divisor scaled so that its  *)
(* top limb is at least Base/2): BDivMod(n, d) = [q, r] with q = n \div d  *)
(* and r = 0 exactly when d divides n.                                     *)
(***************************************************************************)
RECURSIVE BFixDigit(_, _, _)
BFixDigit(r, d, q) ==
    IF BCmp(BMulSmall(d, q), r) > 0 THEN BFixDigit(r, d, q - 1) ELSE q

BDigit(r, d) ==
    IF BCmp(r, d) < 0 THEN 0
    ELSE LET hi == Limb(r, Len(d) + 1) * Base + r[Len(d)]
             q0 == hi \div d[Len(d)]
         IN  BFixDigit(r, d, IF q0 >= Base THEN Base - 1 ELSE q0)

RECURSIVE BDivLoop(_, _, _, _)
BDivLoop(n, d, x, r) ==
    IF x = 0 THEN [q |-> <<>>, r |-> r]
    ELSE LET r1  == BNorm(<<n[x]>> \o r)
             qd  == BDigit(r1, d)
             low == BDivLoop(n, d, x - 1, BSub(r1, BMulSmall(d, qd)))
         IN  [q |-> low.q \o <<qd>>, r |-> low.r]

BDivMod(n, d) ==
    LET f   == Base \div (d[Len(d)] + 1)
        nf  == BMulSmall(n, f)
        df  == BMulSmall(d, f)
        top == Len(d) - 1
    IN  IF Len(nf) <= top THEN [q |-> <<>>, r |-> nf]
        ELSE LET res == BDivLoop(nf, df, Len(nf) - top,
                                 BNorm(SubSeq(nf, Len(nf) - top + 1, Len(nf))))
             IN  [q |-> BNorm(res.q), r |-> res.r]

\* floor of the square root of a native integer
RECURSIVE IntSqrtLoop(_, _)
IntSqrtLoop(n, x) ==
    LET y == (x + n \div x) \div 2
    IN  IF y >= x THEN x ELSE IntSqrtLoop(n, y)

IntSqrt(n) == IF n = 0 THEN 0 ELSE IntSqrtLoop(n, 32768)

\* One step of Newton's iteration for the square root of n; from any x > 0
\* the result is at least the floor of the root.
BSqrtStep(n, x) == BDivSmall(BAdd(x, BDivMod(n, x).q), 2)

\* the largest y <= x with y * y <= n
RECURSIVE BSqrtDown(_, _)
BSqrtDown(n, x) ==
    IF BCmp(BMul(x, x), n) > 0 THEN BSqrtDown(n, BSub(x, <<1>>)) ELSE x

\* floor of the square root: two Newton steps from the root of the leading
\* 29 or 30 bits (plus one, scaled back), then down to the exact floor
BSqrt(n) ==
    IF Len(n) <= 2 THEN BFromInt(IntSqrt(Limb(n, 2) * Base + Limb(n, 1)))
    ELSE LET sh  == 2 * ((BBitLen(n) - 29) \div 2)
             top == BShr(n, sh)
             t   == Limb(top, 3) * Base * Base + Limb(top, 2) * Base + Limb(top, 1)
             x0  == BShl(BFromInt(IntSqrt(t) + 1), sh \div 2)
         IN  BSqrtDown(n, BSqrtStep(n, BSqrtStep(n, x0)))

(***************************************************************************)
(* binary64: [s, m, e] is (-1)^s * m * 2^e with 2^52 <= m < 2^53, or a     *)
(* signed zero (m = <<>>, e = 0).  Every operation returns the exact       *)
(* result rounded to nearest, ties to even, as the hardware does.          *)
(***************************************************************************)
Prec == 53

FZero(s) == [s |-> s, m |-> <<>>, e |-> 0]

FIsZero(a) == Len(a.m) = 0

\* the value (-1)^s * (n + f) * 2^e rounded, where 0 < f < 1 if sticky and
\* f = 0 otherwise (sticky only with n of more than Prec bits)
FRound(s, n, e, sticky) ==
    IF Len(n) = 0 THEN FZero(s)
    ELSE LET bl == BBitLen(n)
         IN  IF bl <= Prec
             THEN [s |-> s, m |-> BShl(n, Prec - bl), e |-> e - (Prec - bl)]
             ELSE LET sh   == bl - Prec
                      t    == BShr(n, sh - 1)
                      q    == BDivSmall(t, 2)
                      lost == sticky \/ (sh > 1 /\ BLowNonZero(n, sh - 1))
                      up   == t[1] % 2 = 1 /\ (lost \/ q[1] % 2 = 1)
                      q1   == IF up THEN BAdd(q, <<1>>) ELSE q
                  IN  IF BBitLen(q1) > Prec
                      THEN [s |-> s, m |-> BDivSmall(q1, 2), e |-> e + sh + 1]
                      ELSE [s |-> s, m |-> q1, e |-> e + sh]

FFromInt(n) ==
    IF n >= 0 THEN FRound(0, BFromInt(n), 0, FALSE)
              ELSE FRound(1, BFromInt(0 - n), 0, FALSE)

\* n / 2^k for a small integer n
FDyadic(n, k) ==
    IF n >= 0 THEN FRound(0, BFromInt(n), 0 - k, FALSE)
              ELSE FRound(1, BFromInt(0 - n), 0 - k, FALSE)

FNeg(a) == [a EXCEPT !.s = 1 - a.s]

FMul(a, b) ==
    LET s == (a.s + b.s) % 2
    IN  IF FIsZero(a) \/ FIsZero(b) THEN FZero(s)
        ELSE FRound(s, BMul(a.m, b.m), a.e + b.e, FALSE)

FAdd(a, b) ==
    IF FIsZero(a) /\ FIsZero(b) THEN FZero(IF a.s = 1 /\ b.s = 1 THEN 1 ELSE 0)
    ELSE IF FIsZero(a) THEN b
    ELSE IF FIsZero(b) THEN a
    ELSE LET e  == IF a.e <= b.e THEN a.e ELSE b.e
             na == BShl(a.m, a.e - e)
             nb == BShl(b.m, b.e - e)
             c  == BCmp(na, nb)
         IN  IF a.s = b.s THEN FRound(a.s, BAdd(na, nb), e, FALSE)
             ELSE IF c = 0 THEN FZero(0)
             ELSE IF c > 0 THEN FRound(a.s, BSub(na, nb), e, FALSE)
             ELSE FRound(b.s, BSub(nb, na), e, FALSE)

FSub(a, b) == FAdd(a, FNeg(b))

\* a / b for b # 0
FDiv(a, b) ==
    LET s == (a.s + b.s) % 2
    IN  IF FIsZero(a) THEN FZero(s)
        ELSE LET d == BDivMod(BShl(a.m, Prec + 3), b.m)
             IN  FRound(s, d.q, a.e - b.e - (Prec + 3), Len(d.r) # 0)

\* the square root of a >= 0
FSqrt(a) ==
    IF FIsZero(a) THEN a
    ELSE LET k == Prec + 5 + ((a.e - (Prec + 5)) % 2)
             n == BShl(a.m, k)
             r == BSqrt(n)
         IN  FRound(0, r, (a.e - k) \div 2, BCmp(BMul(r, r), n) # 0)

\* -1, 0, 1 as a < b, a = b, a > b (the two zeros are equal)
FCmpMag(a, b) ==
    IF FIsZero(a) /\ FIsZero(b) THEN 0
    ELSE IF FIsZero(a) THEN -1
    ELSE IF FIsZero(b) THEN 1
    ELSE IF a.e < b.e THEN -1
    ELSE IF a.e > b.e THEN 1
    ELSE BCmp(a.m, b.m)

FCmp(a, b) ==
    IF FIsZero(a) /\ FIsZero(b) THEN 0
    ELSE IF a.s = 0 /\ (b.s = 1 \/ FIsZero(b)) THEN (IF FIsZero(a) THEN (IF b.s = 1 THEN 1 ELSE 0) ELSE 1)
    ELSE IF a.s = 1 /\ (b.s = 0 \/ FIsZero(b)) THEN (IF FIsZero(a) THEN (IF b.s = 0 THEN -1 ELSE 0) ELSE -1)
    ELSE IF a.s = 0 THEN FCmpMag(a, b)
    ELSE 0 - FCmpMag(a, b)

FEq(a, b) == FCmp(a, b) = 0

(***************************************************************************)
(* np.pi, and np.cos / np.sin on the phases the model's inputs produce.    *)
(* With the wave vector in eighths, the phase of a site is n/4 * np.pi for *)
(* an integer n; entry n + 1 of TrigTable holds that float and the         *)
(* correctly rounded binary64 cosine and sine of it (the values the maths  *)
(* library returns).  cos is even and sin is odd.                          *)
(***************************************************************************)
Pi == [s |-> 0, m |-> <<11544, 4368, 8117, 1608>>, e |-> -51]

TrigTable == <<
    [x   |-> [s |-> 0, m |-> <<>>, e |-> 0],
     cos |-> [s |-> 0, m |-> <<0, 0, 0, 1024>>, e |-> -52],
     sin |-> [s |-> 0, m |-> <<>>, e |-> 0]],
    [x   |-> [s |-> 0, m |-> <<11544, 4368, 8117, 1608>>, e |-> -53],
     cos |-> [s |-> 0, m |-> <<15309, 6652, 2534, 1448>>, e |-> -53],
     sin |-> [s |-> 0, m |-> <<15308, 6652, 2534, 1448>>, e |-> -53]],
    [x   |-> [s |-> 0, m |-> <<11544, 4368, 8117, 1608>>, e |-> -52],
     cos |-> [s |-> 0, m |-> <<7175, 3153, 8803, 1129>>, e |-> -106],
     sin |-> [s |-> 0, m |-> <<0, 0, 0, 1024>>, e |-> -52]],
    [x   |-> [s |-> 0, m |-> <<8658, 15564, 6087, 1206>>, e |-> -51],
     cos |-> [s |-> 1, m |-> <<15308, 6652, 2534, 1448>>, e |-> -53],
     sin |-> [s |-> 0, m |-> <<15309, 6652, 2534, 1448>>, e |-> -53]],
    [x   |-> [s |-> 0, m |-> <<11544, 4368, 8117, 1608>>, e |-> -51],
     cos |-> [s |-> 1, m |-> <<0, 0, 0, 1024>>, e |-> -52],
     sin |-> [s |-> 0, m |-> <<7175, 3153, 8803, 1129>>, e |-> -105]],
    [x   |-> [s |-> 0, m |-> <<14430, 9556, 10146, 2010>>, e |-> -51],
     cos |-> [s |-> 1, m |-> <<15310, 6652, 2534, 1448>>, e |-> -53],
     sin |-> [s |-> 1, m |-> <<15308, 6652, 2534, 1448>>, e |-> -53]],
    [x   |-> [s |-> 0, m |-> <<8658, 15564, 6087, 1206>>, e |-> -50],
     cos |-> [s |-> 1, m |-> <<2570, 12922, 5012, 1694>>, e |-> -105],
     sin |-> [s |-> 1, m |-> <<0, 0, 0, 1024>>, e |-> -52]],
    [x   |-> [s |-> 0, m |-> <<10101, 9966, 7102, 1407>>, e |-> -50],
     cos |-> [s |-> 0, m |-> <<15307, 6652, 2534, 1448>>, e |-> -53],
     sin |-> [s |-> 1, m |-> <<15310, 6652, 2534, 1448>>, e |-> -53]],
    [x   |-> [s |-> 0, m |-> <<11544, 4368, 8117, 1608>>, e |-> -50],
     cos |-> [s |-> 0, m |-> <<0, 0, 0, 1024>>, e |-> -52],
     sin |-> [s |-> 1, m |-> <<7175, 3153, 8803, 1129>>, e |-> -104]],
    [x   |-> [s |-> 0, m |-> <<12987, 15154, 9131, 1809>>, e |-> -50],
     cos |-> [s |-> 0, m |-> <<15310, 6652, 2534, 1448>>, e |-> -53],
     sin |-> [s |-> 0, m |-> <<15307, 6652, 2534, 1448>>, e |-> -53]],
    [x   |-> [s |-> 0, m |-> <<14430, 9556, 10146, 2010>>, e |-> -50],
     cos |-> [s |-> 0, m |-> <<13065, 16229, 15099, 1411>>, e |-> -104],
     sin |-> [s |-> 0, m |-> <<0, 0, 0, 1024>>, e |-> -52]],
    [x   |-> [s |-> 0, m |-> <<7936, 10171, 13772, 1105>>, e |-> -49],
     cos |-> [s |-> 1, m |-> <<15301, 6652, 2534, 1448>>, e |-> -53],
     sin |-> [s |-> 0, m |-> <<15316, 6652, 2534, 1448>>, e |-> -53]],
    [x   |-> [s |-> 0, m |-> <<8658, 15564, 6087, 1206>>, e |-> -49],
     cos |-> [s |-> 1, m |-> <<0, 0, 0, 1024>>, e |-> -52],
     sin |-> [s |-> 0, m |-> <<2570, 12922, 5012, 1694>>, e |-> -104]],
    [x   |-> [s |-> 0, m |-> <<9380, 4573, 14787, 1306>>, e |-> -49],
     cos |-> [s |-> 1, m |-> <<15305, 6652, 2534, 1448>>, e |-> -53],
     sin |-> [s |-> 1, m |-> <<15312, 6652, 2534, 1448>>, e |-> -53]],
    [x   |-> [s |-> 0, m |-> <<10101, 9966, 7102, 1407>>, e |-> -49],
     cos |-> [s |-> 1, m |-> <<8460, 9614, 11309, 1976>>, e |-> -104],
     sin |-> [s |-> 1, m |-> <<0, 0, 0, 1024>>, e |-> -52]],
    [x   |-> [s |-> 0, m |-> <<10822, 15359, 15801, 1507>>, e |-> -49],
     cos |-> [s |-> 0, m |-> <<15300, 6652, 2534, 1448>>, e |-> -53],
     sin |-> [s |-> 1, m |-> <<15317, 6652, 2534, 1448>>, e |-> -53]],
    [x   |-> [s |-> 0, m |-> <<11544, 4368, 8117, 1608>>, e |-> -49],
     cos |-> [s |-> 0, m |-> <<0, 0, 0, 1024>>, e |-> -52],
     sin |-> [s |-> 1, m |-> <<7175, 3153, 8803, 1129>>, e |-> -103]],
    [x   |-> [s |-> 0, m |-> <<12266, 9761, 432, 1709>>, e |-> -49],
     cos |-> [s |-> 0, m |-> <<15306, 6652, 2534, 1448>>, e |-> -53],
     sin |-> [s |-> 0, m |-> <<15311, 6652, 2534, 1448>>, e |-> -53]],
    [x   |-> [s |-> 0, m |-> <<12987, 15154, 9131, 1809>>, e |-> -49],
     cos |-> [s |-> 0, m |-> <<10120, 9691, 11951, 1270>>, e |-> -103],
     sin |-> [s |-> 0, m |-> <<0, 0, 0, 1024>>, e |-> -52]],
    [x   |-> [s |-> 0, m |-> <<13708, 4163, 1447, 1910>>, e |-> -49],
     cos |-> [s |-> 1, m |-> <<15299, 6652, 2534, 1448>>, e |-> -53],
     sin |-> [s |-> 0, m |-> <<15318, 6652, 2534, 1448>>, e |-> -53]],
    [x   |-> [s |-> 0, m |-> <<14430, 9556, 10146, 2010>>, e |-> -49],
     cos |-> [s |-> 1, m |-> <<0, 0, 0, 1024>>, e |-> -52],
     sin |-> [s |-> 0, m |-> <<13065, 16229, 15099, 1411>>, e |-> -103]],
    [x   |-> [s |-> 0, m |-> <<15768, 15666, 9422, 1055>>, e |-> -48],
     cos |-> [s |-> 1, m |-> <<15307, 6652, 2534, 1448>>, e |-> -53],
     sin |-> [s |-> 1, m |-> <<15310, 6652, 2534, 1448>>, e |-> -53]],
    [x   |-> [s |-> 0, m |-> <<7936, 10171, 13772, 1105>>, e |-> -48],
     cos |-> [s |-> 1, m |-> <<16290, 1595, 4562, 1412>>, e |-> -101],
     sin |-> [s |-> 1, m |-> <<0, 0, 0, 1024>>, e |-> -52]],
    [x   |-> [s |-> 0, m |-> <<105, 4676, 1738, 1156>>, e |-> -48],
     cos |-> [s |-> 0, m |-> <<15298, 6652, 2534, 1448>>, e |-> -53],
     sin |-> [s |-> 1, m |-> <<15319, 6652, 2534, 1448>>, e |-> -53]],
    [x   |-> [s |-> 0, m |-> <<8658, 15564, 6087, 1206>>, e |-> -48],
     cos |-> [s |-> 0, m |-> <<0, 0, 0, 1024>>, e |-> -52],
     sin |-> [s |-> 1, m |-> <<2570, 12922, 5012, 1694>>, e |-> -103]] >>

FAbs(a) == [a EXCEPT !.s = 0]

TrigEntry(x) == CHOOSE r \in {TrigTable[n] : n \in DOMAIN TrigTable} : r.x = FAbs(x)

Cos(x) == TrigEntry(x).cos

Sin(x) == IF x.s = 1 THEN FNeg(TrigEntry(x).sin) ELSE TrigEntry(x).sin

One == FFromInt(1)

Two == FFromInt(2)

(***************************************************************************)
(* Bounds of the model and the inputs drawn within them.                   *)
(***************************************************************************)
\* supercells of at most MaxSites sites: R_max[0] * R_max[1] * R_max[2] <= MaxSites
MaxSites == 6

\* wave vectors (n/8, 0, 0), (0, n/8, 0), (0, 0, n/8) and, in the shape main()
\* gives them, (0, n/8, n/8), for n in 0..MaxQ
MaxQ == 1

\* initial moments (a, b, c) with integers MaxM >= a >= b >= c >= 0
MaxM == 1

\* a second call of generate_spiral_structure takes atoms_in_spiral in
\* 1..MaxAtoms, on supercells of at most MaxPairSites sites
MaxAtoms == 2

MaxPairSites == 4

\* create_xsf_file: scale in 1..MaxScale, at most MaxRecords sites, and the
\* supercell (n, 2n, 2n) of main() for n in 1..MaxCell
MaxScale == 3

MaxRecords == 2

MaxCell == 2

\* main(): atoms_in_spiral = 3
AtomsInSpiral == 3

Extents == {r \in (1..MaxSites) \X (1..MaxSites) \X (1..MaxSites) :
                r[1] * r[2] * r[3] <= MaxSites}

QVectors == {<<FDyadic(r[1], 3), FDyadic(r[2], 3), FDyadic(r[3], 3)>> :
                r \in UNION {{<<n, 0, 0>>, <<0, n, 0>>, <<0, 0, n>>, <<0, n, n>>} :
                                n \in 0..MaxQ}}

MVectors == {<<FFromInt(r[1]), FFromInt(r[2]), FFromInt(r[3])>> :
                r \in {v \in (0..MaxM) \X (0..MaxM) \X (0..MaxM) :
                          v[1] >= v[2] /\ v[2] >= v[3]}}

\* the sites and moments handed to create_xsf_file: integer triples, and
\* moments that are a rotated (1, 0, 1), binary fractions that fall halfway
\* between two 4-decimal numbers, and signed zeros
XsfPositions == {<<0, 0, 1>>, <<1, 2, 0>>}

XsfMoments ==
    { <<TrigTable[2].cos, TrigTable[2].sin, One>>,
      <<FDyadic(1, 5), FDyadic(-3, 5), FDyadic(45, 5)>>,
      <<FZero(1), FZero(0), FFromInt(-1)>> }

XsfCells == {<<n, 2 * n, 2 * n>> : n \in 1..MaxCell}

(***************************************************************************)
(* generate_spiral_structure: the expressions of the loop body.            *)
(* atoms_in_spiral is in scope of all of them.                             *)
(***************************************************************************)
\* variant: the j and k loops run over each other's extent
LoopBoundTransposed(atoms, R, axis) ==
    R[IF axis = 2 THEN 3 ELSE IF axis = 3 THEN 2 ELSE axis]

\* variant: the outer loop is range(atoms_in_spiral)
LoopBoundAtoms(atoms, R, axis) == IF axis = 1 THEN atoms ELSE R[axis]

\* range(R_max[axis]) of the three for loops
LoopBound(atoms, R, axis) == R[axis]

\* phase = (q_vector[0] * i + q_vector[1] * j + q_vector[2] * k) * 2 * np.pi
Phase(atoms, q, a, b, c) ==
    FMul(FMul(FAdd(FAdd(FMul(q[1], FFromInt(a)), FMul(q[2], FFromInt(b))),
                   FMul(q[3], FFromInt(c))),
              Two),
         Pi)

\* variant: mx loses its factor initial_moment[1]
MomentLostFactor(m0, phase) ==
    << FSub(FMul(m0[1], Cos(phase)), Sin(phase)),
       FAdd(FMul(m0[1], Sin(phase)), FMul(m0[2], Cos(phase))),
       m0[3] >>

\* variant: mx with the sign of my
MomentSignSlip(m0, phase) ==
    << FAdd(FMul(m0[1], Cos(phase)), FMul(m0[2], Sin(phase))),
       FAdd(FMul(m0[1], Sin(phase)), FMul(m0[2], Cos(phase))),
       m0[3] >>

\* [mx, my, mz]: initial_moment rotated about z by phase
Moment(m0, phase) ==
    << FSub(FMul(m0[1], Cos(phase)), FMul(m0[2], Sin(phase))),
       FAdd(FMul(m0[1], Sin(phase)), FMul(m0[2], Cos(phase))),
       m0[3] >>

\* mx * magnetic_moments[0][0] + my * magnetic_moments[0][1] + mz * magnetic_moments[0][2]
DotProduct(m, first) ==
    FAdd(FAdd(FMul(m[1], first[1]), FMul(m[2], first[2])), FMul(m[3], first[3]))

\* np.sqrt(mx ** 2 + my ** 2 + mz ** 2)
MagCurrent(m) ==
    FSqrt(FAdd(FAdd(FMul(m[1], m[1]), FMul(m[2], m[2])), FMul(m[3], m[3])))

\* np.sqrt(sum(m ** 2 for m in magnetic_moments[0])): the sum starts from 0
MagFirst(first) ==
    FSqrt(FAdd(FAdd(FAdd(FZero(0), FMul(first[1], first[1])), FMul(first[2], first[2])),
               FMul(first[3], first[3])))

\* np.clip(cos_angle, -1.0, 1.0)
Clip(c) ==
    IF FCmp(c, FNeg(One)) < 0 THEN FNeg(One)
    ELSE IF FCmp(c, One) > 0 THEN One
    ELSE c

(***************************************************************************)
(* An angle is kept as the expression that produced it: the constant 0.0,  *)
(* or np.arccos(c) * 180 / np.pi for the clipped cosine c.  The latter is  *)
(* 0.0 exactly when c = 1.0 and lies in (0, 180] for every other c in      *)
(* [-1, 1).                                                                *)
(***************************************************************************)
ConstAngle == [op |-> "const", arg |-> FZero(0)]

ArcCosDeg(c) == [op |-> "arccos_deg", arg |-> c]

AngleIsZero(a) ==
    \/ a.op = "const" /\ FIsZero(a.arg)
    \/ a.op = "arccos_deg" /\ FEq(a.arg, One)

\* variant: the first site goes through the formula like every other
AngleDegNoFirst(num, m, first) ==
    LET product == FMul(MagCurrent(m), MagFirst(first))
    IN  IF FIsZero(product)
        THEN ConstAngle
        ELSE ArcCosDeg(Clip(FDiv(DotProduct(m, first), product)))

\* angle_deg of lines 48-63, for the moment m of site number num
AngleDeg(num, m, first) ==
    IF num = 0 THEN ConstAngle
    ELSE LET dot_product == DotProduct(m, first)
             mag_current == MagCurrent(m)
             mag_first   == MagFirst(first)
             product     == FMul(mag_current, mag_first)
         IN  IF FIsZero(product)
             THEN ConstAngle
             ELSE ArcCosDeg(Clip(FDiv(dot_product, product)))

\* variant: the counter is not advanced
NextNumForgotten(num) == num

\* num += 1
NextNum(num) == num + 1

(***************************************************************************)
(* create_xsf_file: the text written.  A number is kept as it is printed:  *)
(* its sign, its digits as a natural number of units of 10^-dec, and dec,  *)
(* the count of decimals (the field width only pads with blanks).  A line  *)
(* is its words and its numbers.                                           *)
(***************************************************************************)
Num(neg, units, dec) == [neg |-> neg, units |-> units, dec |-> dec]

\* a bignum below 2^31 as a native integer
BToInt(a) == Limb(a, 1) + Limb(a, 2) * Base + Limb(a, 3) * Base * Base

Pow10(d) == <<1, 10, 100, 1000, 10000>>[d + 1]

\* f"{v:.<dec>f}" for dec <= 4: the decimal nearest to the exact value of the
\* float v, ties to the even digit; a negative zero prints its sign
Fixed(v, dec) ==
    IF FIsZero(v) THEN Num(v.s = 1, 0, dec)
    ELSE LET n == BMulSmall(v.m, Pow10(dec))
         IN  IF v.e >= 0 THEN Num(v.s = 1, BToInt(BShl(n, v.e)), dec)
             ELSE IF 0 - v.e > BBitLen(n) THEN Num(v.s = 1, 0, dec)
             ELSE LET sh   == 0 - v.e
                      t    == BShr(n, sh - 1)
                      q    == BToInt(BDivSmall(t, 2))
                      lost == sh > 1 /\ BLowNonZero(n, sh - 1)
                      up   == t[1] % 2 = 1 /\ (lost \/ q % 2 = 1)
                  IN  Num(v.s = 1, IF up THEN q + 1 ELSE q, dec)

\* f"{n}" for a natural number n
Decimal(n) == Num(FALSE, n, 0)

Line(text, nums) == [text |-> text, nums |-> nums]

\* the nine lines written before the records (lines 100-112)
HeaderLine(w, R, scale, positions) ==
    CASE w = 1 -> Line("# XSF file generated for magnetic spiral visualization", <<>>)
      [] w = 2 -> Line("# Can be opened in VESTA to visualize magnetic moments", <<>>)
      [] w = 3 -> Line("CRYSTAL", <<>>)
      [] w = 4 -> Line("PRIMVEC", <<>>)
      [] w = 5 -> Line("", <<Fixed(FFromInt(R[1] * scale), 1), Num(FALSE, 0, 1), Num(FALSE, 0, 1)>>)
      [] w = 6 -> Line("", <<Num(FALSE, 0, 1), Fixed(FFromInt(R[2] * scale), 1), Num(FALSE, 0, 1)>>)
      [] w = 7 -> Line("", <<Num(FALSE, 0, 1), Num(FALSE, 0, 1), Fixed(FFromInt(R[3] * scale), 1)>>)
      [] w = 8 -> Line("PRIMCOORD", <<>>)
      [] w = 9 -> Line("", <<Decimal(Len(positions)), Decimal(1)>>)

\* x, y, z = pos[0] * scale, pos[1] * scale, pos[2] * scale (integers)
ScalePosition(pos, scale) == <<pos[1] * scale, pos[2] * scale, pos[3] * scale>>

\* variant: mz is written unscaled
ScaleMomentForgotZ(mom, scale) ==
    <<FMul(mom[1], FFromInt(scale)), FMul(mom[2], FFromInt(scale)), mom[3]>>

\* mx, my, mz = mom[0] * scale, mom[1] * scale, mom[2] * scale
ScaleMoment(mom, scale) ==
    <<FMul(mom[1], FFromInt(scale)), FMul(mom[2], FFromInt(scale)),
      FMul(mom[3], FFromInt(scale))>>

\* f"26  {x:8.4f}  {y:8.4f}  {z:8.4f}  {mx:8.4f}  {my:8.4f}  {mz:8.4f}\n"
XsfRecord(pos, mom, scale) ==
    LET p == ScalePosition(pos, scale)
        m == ScaleMoment(mom, scale)
    IN  Line("", <<Decimal(26),
                   Fixed(FFromInt(p[1]), 4), Fixed(FFromInt(p[2]), 4), Fixed(FFromInt(p[3]), 4),
                   Fixed(m[1], 4), Fixed(m[2], 4), Fixed(m[3], 4)>>)

\* variant: the loop stops one pair early
ZipShort(ps, ms) ==
    [n \in 1..(IF Len(ps) <= Len(ms) THEN Len(ps) - 1 ELSE Len(ms) - 1) |-> <<ps[n], ms[n]>>]

\* zip(positions, magnetic_moments)
Zip(ps, ms) ==
    [n \in 1..(IF Len(ps) <= Len(ms) THEN Len(ps) ELSE Len(ms)) |-> <<ps[n], ms[n]>>]

\* variant: f = open(...) without with: nothing closes the file
ExitWithLeak(handle) == handle

\* leaving the with block, normally or by an exception, closes the file
ExitWith(handle) == "closed"

(***************************************************************************)
(* State.                                                                  *)
(***************************************************************************)
VARIABLES
    atoms_in_spiral,   \* argument of generate_spiral_structure
    R_max,             \* argument: supercell extents
    q_vector,          \* argument: wave vector
    initial_moment,    \* argument: initial moment
    pc,                \* position in the program
    i, j, k,           \* loop variables (-1 before a loop's first iteration)
    num,               \* site counter
    positions, magnetic_moments, angles,
    first_call,        \* what an earlier call with the same arguments returned
    scale,             \* argument of create_xsf_file
    fh,                \* the file handle: "none", "open" or "closed"
    file,              \* the lines of the file on disk
    exc,               \* the exception propagating to the caller, or "none"
    printed            \* whether "XSF file ... created successfully!" was printed

args == <<atoms_in_spiral, R_max, q_vector, initial_moment>>

lists == <<positions, magnetic_moments, angles>>

xsf == <<scale, fh, file, exc, printed>>

vars == <<args, pc, i, j, k, num, lists, first_call, xsf>>

(***************************************************************************)
(* generate_spiral_structure(atoms_in_spiral, R_max, q_vector,             *)
(* initial_moment), entered with its three lists empty and num = 0.        *)
(***************************************************************************)
Init ==
    /\ atoms_in_spiral = AtomsInSpiral
    /\ R_max \in Extents
    /\ q_vector \in QVectors
    /\ initial_moment \in MVectors
    /\ pc = "for_i"
    /\ i = -1 /\ j = -1 /\ k = -1
    /\ num = 0
    /\ positions = <<>> /\ magnetic_moments = <<>> /\ angles = <<>>
    /\ first_call = <<>>
    /\ scale = 1 /\ fh = "none" /\ file = <<>> /\ exc = "none" /\ printed = FALSE

\* for i in range(R_max[0]):
ForI ==
    /\ pc = "for_i"
    /\ IF i + 1 < LoopBound(atoms_in_spiral, R_max, 1)
       THEN i' = i + 1 /\ j' = -1 /\ pc' = "for_j"
       ELSE pc' = "return" /\ UNCHANGED <<i, j>>
    /\ UNCHANGED <<args, k, num, lists, first_call, xsf>>

\* for j in range(R_max[1]):
ForJ ==
    /\ pc = "for_j"
    /\ IF j + 1 < LoopBound(atoms_in_spiral, R_max, 2)
       THEN j' = j + 1 /\ k' = -1 /\ pc' = "for_k"
       ELSE pc' = "for_i" /\ UNCHANGED <<j, k>>
    /\ UNCHANGED <<args, i, num, lists, first_call, xsf>>

\* for k in range(R_max[2]):
ForK ==
    /\ pc = "for_k"
    /\ IF k + 1 < LoopBound(atoms_in_spiral, R_max, 3)
       THEN k' = k + 1 /\ pc' = "store_position"
       ELSE pc' = "for_j" /\ UNCHANGED k
    /\ UNCHANGED <<args, i, j, num, lists, first_call, xsf>>

\* positions.append([i, j, k])
StorePosition ==
    /\ pc = "store_position"
    /\ positions' = Append(positions, <<i, j, k>>)
    /\ pc' = "store_moment"
    /\ UNCHANGED <<args, i, j, k, num, magnetic_moments, angles, first_call, xsf>>

\* phase, mx, my, mz; magnetic_moments.append([mx, my, mz])
StoreMoment ==
    /\ pc = "store_moment"
    /\ magnetic_moments' =
           Append(magnetic_moments,
                  Moment(initial_moment, Phase(atoms_in_spiral, q_vector, i, j, k)))
    /\ pc' = "store_angle"
    /\ UNCHANGED <<args, i, j, k, num, positions, angles, first_call, xsf>>

\* angle_deg; angles.append(angle_deg); num += 1
StoreAngle ==
    /\ pc = "store_angle"
    /\ angles' = Append(angles, AngleDeg(num, magnetic_moments[Len(magnetic_moments)],
                                         magnetic_moments[1]))
    /\ num' = NextNum(num)
    /\ pc' = "for_k"
    /\ UNCHANGED <<args, i, j, k, positions, magnetic_moments, first_call, xsf>>

Generate == ForI \/ ForJ \/ ForK \/ StorePosition \/ StoreMoment \/ StoreAngle

Next == Generate

Spec == Init /\ [][Next]_vars

(***************************************************************************)
(* Two calls of generate_spiral_structure that differ in atoms_in_spiral   *)
(* only: when the first has returned, its result is kept and the function  *)
(* is entered again.                                                       *)
(***************************************************************************)
InitTwoCalls == Init /\ R_max[1] * R_max[2] * R_max[3] <= MaxPairSites

SecondCall ==
    /\ pc = "return"
    /\ first_call = <<>>
    /\ first_call' = <<lists>>
    /\ atoms_in_spiral' \in (1..MaxAtoms) \ {atoms_in_spiral}
    /\ pc' = "for_i"
    /\ i' = -1 /\ j' = -1 /\ k' = -1
    /\ num' = 0
    /\ positions' = <<>> /\ magnetic_moments' = <<>> /\ angles' = <<>>
    /\ UNCHANGED <<R_max, q_vector, initial_moment, xsf>>

NextTwoCalls == Generate \/ SecondCall

SpecTwoCalls == InitTwoCalls /\ [][NextTwoCalls]_vars

(***************************************************************************)
(* create_xsf_file(positions, magnetic_moments, R_max, filename, scale),   *)
(* called with two lists of the same length.  Opening the file and every   *)
(* f.write can raise OSError.                                              *)
(***************************************************************************)
InitXsf ==
    /\ atoms_in_spiral = AtomsInSpiral
    /\ R_max \in XsfCells
    /\ q_vector = <<FZero(0), FZero(0), FZero(0)>>
    /\ initial_moment = <<FZero(0), FZero(0), FZero(0)>>
    /\ pc = "open"
    /\ i = -1 /\ j = -1 /\ k = -1
    /\ num = 0
    /\ \E n \in 0..MaxRecords :
          /\ positions \in [1..n -> XsfPositions]
          /\ magnetic_moments \in [1..n -> XsfMoments]
    /\ angles = <<>>
    /\ first_call = <<>>
    /\ scale \in 1..MaxScale
    /\ fh = "none" /\ file = <<>> /\ exc = "none" /\ printed = FALSE

gen == <<args, i, j, k, num, lists, first_call>>

\* with open(filepath, 'w') as f: the file is created or truncated
OpenFile ==
    /\ pc = "open"
    /\ fh' = "open"
    /\ file' = <<>>
    /\ pc' = "write"
    /\ UNCHANGED <<gen, scale, exc, printed>>

\* open() raises: no handle was acquired
OpenFails ==
    /\ pc = "open"
    /\ exc' = "OSError"
    /\ pc' = "raised"
    /\ UNCHANGED <<gen, scale, fh, file, printed>>

\* the f.write calls of lines 100-112
WriteHeader ==
    /\ pc = "write"
    /\ Len(file) < 9
    /\ file' = Append(file, HeaderLine(Len(file) + 1, R_max, scale, positions))
    /\ UNCHANGED <<gen, pc, scale, fh, exc, printed>>

\* one iteration of for pos, mom in zip(positions, magnetic_moments)
WriteRecord ==
    /\ pc = "write"
    /\ Len(file) >= 9
    /\ Len(file) - 9 < Len(Zip(positions, magnetic_moments))
    /\ LET pm == Zip(positions, magnetic_moments)[Len(file) - 8]
       IN  file' = Append(file, XsfRecord(pm[1], pm[2], scale))
    /\ UNCHANGED <<gen, pc, scale, fh, exc, printed>>

\* f.write("\n") after the loop
WriteBlank ==
    /\ pc = "write"
    /\ Len(file) >= 9
    /\ Len(file) - 9 = Len(Zip(positions, magnetic_moments))
    /\ file' = Append(file, Line("", <<>>))
    /\ pc' = "exit_with"
    /\ UNCHANGED <<gen, scale, fh, exc, printed>>

\* the f.write that is next raises: the with block is left by the exception
WriteFails ==
    /\ pc = "write"
    /\ exc' = "OSError"
    /\ fh' = ExitWith(fh)
    /\ pc' = "raised"
    /\ UNCHANGED <<gen, scale, file, printed>>

\* the end of the with block
CloseFile ==
    /\ pc = "exit_with"
    /\ fh' = ExitWith(fh)
    /\ pc' = "print"
    /\ UNCHANGED <<gen, scale, file, exc, printed>>

\* print(f"\nXSF file '{filename}' created successfully!") and the lines after it
PrintCreated ==
    /\ pc = "print"
    /\ printed' = TRUE
    /\ pc' = "done"
    /\ UNCHANGED <<gen, scale, fh, file, exc>>

\* the caller keeps the document written with scale = 1 and calls
\* create_xsf_file again, on the same lists and file name, with another scale
SecondXsfCall ==
    /\ pc = "done"
    /\ scale = 1
    /\ first_call = <<>>
    /\ first_call' = <<file>>
    /\ scale' \in 2..MaxScale
    /\ pc' = "open"
    /\ fh' = "none"
    /\ printed' = FALSE
    /\ UNCHANGED <<args, i, j, k, num, lists, file, exc>>

NextXsf ==
    \/ OpenFile \/ OpenFails
    \/ WriteHeader \/ WriteRecord \/ WriteBlank \/ WriteFails
    \/ CloseFile \/ PrintCreated
    \/ SecondXsfCall

SpecXsf == InitXsf /\ [][NextXsf]_vars

(***************************************************************************)
(* Properties of generate_spiral_structure.                                *)
(***************************************************************************)
Sites == R_max[1] * R_max[2] * R_max[3]

ZeroVector == <<FZero(0), FZero(0), FZero(0)>>

SameVector(a, b) == FEq(a[1], b[1]) /\ FEq(a[2], b[2]) /\ FEq(a[3], b[3])

\* C1: the returned positions list has Nx*Ny*Nz entries, the entry at index
\* i*Ny*Nz + j*Nz + k is [i, j, k] (row-major order), and every triple of the
\* Cartesian product appears exactly once
C1_RowMajor ==
    pc = "return" =>
        /\ Len(positions) = Sites
        /\ \A a \in 0..(R_max[1] - 1), b \in 0..(R_max[2] - 1), c \in 0..(R_max[3] - 1) :
              /\ a * R_max[2] * R_max[3] + b * R_max[3] + c + 1 \in DOMAIN positions
              /\ positions[a * R_max[2] * R_max[3] + b * R_max[3] + c + 1] = <<a, b, c>>
              /\ Cardinality({n \in DOMAIN positions : positions[n] = <<a, b, c>>}) = 1

C1_Witness == pc = "return" /\ R_max = <<2, 1, 3>>

\* C2: on return the three lists all have Nx*Ny*Nz entries, and at the end of
\* every iteration of the inner loop (and so at every loop head) they have the
\* same length, which is num
C2_Lengths ==
    /\ pc \in {"for_i", "for_j", "for_k", "return"} =>
          /\ Len(positions) = num
          /\ Len(magnetic_moments) = num
          /\ Len(angles) = num
    /\ pc = "return" =>
          /\ Len(positions) = Sites
          /\ Len(magnetic_moments) = Sites
          /\ Len(angles) = Sites

C2_Witness == pc = "for_k" /\ num = 3 /\ k = 0 /\ Sites > 3

\* C5: the angle stored for the first site, (0, 0, 0), is the constant 0.0 and
\* not a value of the dot-product formula
C5_FirstAngle ==
    Len(angles) >= 1 =>
        /\ positions[1] = <<0, 0, 0>>
        /\ angles[1].op = "const"
        /\ FIsZero(angles[1].arg)

\* the first site of a structure on which the formula, applied to the first
\* moment and itself, would not give 0.0
C5_Witness ==
    /\ Len(angles) >= 1
    /\ ~AngleIsZero(AngleDegNoFirst(0, magnetic_moments[1], magnetic_moments[1]))

\* C6: with initial_moment = (0, 0, 0) every moment is (0, 0, 0) and every
\* angle is the constant 0.0 of lines 49 and 59, never an arccos
C6_ZeroMoment ==
    SameVector(initial_moment, ZeroVector) =>
        /\ \A n \in DOMAIN magnetic_moments : SameVector(magnetic_moments[n], ZeroVector)
        /\ \A n \in DOMAIN angles : angles[n].op = "const" /\ FIsZero(angles[n].arg)

C6_Witness ==
    /\ SameVector(initial_moment, ZeroVector)
    /\ ~SameVector(q_vector, ZeroVector)
    /\ pc = "return"
    /\ Len(angles) >= 3
    /\ ~FIsZero(Phase(atoms_in_spiral, q_vector, i, j, k))

\* C7: with q_vector = (0, 0, 0) every moment equals initial_moment exactly and
\* every angle is 0.0
C7_ZeroWaveVector ==
    SameVector(q_vector, ZeroVector) =>
        /\ \A n \in DOMAIN magnetic_moments : SameVector(magnetic_moments[n], initial_moment)
        /\ \A n \in DOMAIN angles : AngleIsZero(angles[n])

\* np.isclose-style tolerance of the comparison of magnitudes: 2^-50, four
\* units in the last place
Tolerance == FDyadic(1, 50)

Close(a, b) == FCmpMag(FSub(a, b), FMul(Tolerance, b)) <= 0

\* C9: the moment of every site has the magnitude of initial_moment within
\* Tolerance: mx^2 + my^2 is preserved within Tolerance and mz is mz0
C9_Magnitude ==
    pc = "store_angle" =>
        LET m == magnetic_moments[Len(magnetic_moments)]
        IN  /\ m[3] = initial_moment[3]
            /\ Close(FAdd(FMul(m[1], m[1]), FMul(m[2], m[2])),
                     FAdd(FMul(initial_moment[1], initial_moment[1]),
                          FMul(initial_moment[2], initial_moment[2])))
            /\ Close(MagCurrent(m), MagFirst(initial_moment))

\* a site whose moment is turned away from initial_moment in both components
C9_Witness ==
    /\ pc = "store_angle"
    /\ LET m == magnetic_moments[Len(magnetic_moments)]
       IN  /\ ~FEq(m[1], initial_moment[1])
           /\ ~FEq(m[2], initial_moment[2])
           /\ ~FIsZero(m[1]) /\ ~FIsZero(m[2])

Written == pc \in {"exit_with", "print", "done"}

Records == Len(file) - 10

\* C3: a call that completes has written two comment lines, CRYSTAL, PRIMVEC,
\* three cell rows, PRIMCOORD, the count line "<N> 1", N records with species
\* 26 of which the n-th carries positions[n] and magnetic_moments[n] times
\* scale, and one blank line; the count is the number of records
C3_Document ==
    Written =>
        /\ Len(file) = 10 + Len(positions)
        /\ file[1].text = "# XSF file generated for magnetic spiral visualization"
        /\ file[2].text = "# Can be opened in VESTA to visualize magnetic moments"
        /\ file[3] = Line("CRYSTAL", <<>>)
        /\ file[4] = Line("PRIMVEC", <<>>)
        /\ \A r \in 1..3 :
              /\ file[4 + r].text = ""
              /\ Len(file[4 + r].nums) = 3
              /\ \A c \in 1..3 :
                    file[4 + r].nums[c] =
                        Num(FALSE, IF c = r THEN R_max[r] * scale * 10 ELSE 0, 1)
        /\ file[8] = Line("PRIMCOORD", <<>>)
        /\ file[9] = Line("", <<Num(FALSE, Len(positions), 0), Num(FALSE, 1, 0)>>)
        /\ file[9].nums[1].units = Records
        /\ \A n \in 1..Len(positions) :
              /\ file[9 + n].text = ""
              /\ Len(file[9 + n].nums) = 7
              /\ file[9 + n].nums[1] = Num(FALSE, 26, 0)
              /\ \A c \in 1..3 :
                    /\ file[9 + n].nums[1 + c] =
                           Num(FALSE, positions[n][c] * scale * 10000, 4)
                    /\ file[9 + n].nums[4 + c] =
                           Fixed(FMul(magnetic_moments[n][c], FFromInt(scale)), 4)
        /\ file[Len(file)] = Line("", <<>>)

C3_Witness ==
    /\ pc = "done"
    /\ Len(positions) = 2
    /\ positions[1] # positions[2]
    /\ magnetic_moments[1] # magnetic_moments[2]
    /\ scale = 3

\* C4: no path out of create_xsf_file leaves the handle open; when a write or
\* open raised OSError the call ends with that error and without the
\* "created successfully" message, and nothing is written after the error
C4_HandleReleased ==
    /\ [](/\ pc \in {"print", "done", "raised"} => fh # "open"
          /\ pc \in {"print", "done"} => fh = "closed" /\ exc = "none"
          /\ exc # "none" => pc = "raised" /\ ~printed)
    /\ [][exc # "none" => file' = file /\ exc' = exc /\ pc' = pc]_vars

\* a write failed among the records, with the handle open
C4_Witness ==
    /\ pc = "raised"
    /\ exc = "OSError"
    /\ fh = "closed"
    /\ Len(file) > 9

Abs(x) == IF x < 0 THEN 0 - x ELSE x

Value(n) == IF n.neg THEN 0 - n.units ELSE n.units

Rescaled == pc = "done" /\ first_call # <<>>

Scale1 == first_call[1]

SameLayout ==
    /\ Len(file) = Len(Scale1)
    /\ \A r \in DOMAIN file :
          /\ file[r].text = Scale1[r].text
          /\ Len(file[r].nums) = Len(Scale1[r].nums)
    /\ file[9] = Scale1[9]
    /\ \A r \in 10..(Len(file) - 1) : file[r].nums[1] = Scale1[r].nums[1]

ExactCellAndPositions ==
    /\ \A r \in 5..7, c \in 1..3 :
          Value(file[r].nums[c]) = scale * Value(Scale1[r].nums[c])
    /\ \A r \in 10..(Len(file) - 1), c \in 2..4 :
          Value(file[r].nums[c]) = scale * Value(Scale1[r].nums[c])

\* C8 as stated: every written coordinate, moment component and cell
\* dimension of the scale = s document is exactly s times the one of the
\* scale = 1 document, with the count line, species and order unchanged
C8_ScaleExact ==
    Rescaled =>
        /\ SameLayout
        /\ ExactCellAndPositions
        /\ \A r \in 10..(Len(file) - 1), c \in 5..7 :
              Value(file[r].nums[c]) = scale * Value(Scale1[r].nums[c])

\* C8, as the code has it: coordinates and cell dimensions are exactly s times
\* the scale = 1 ones; a written moment component is the 4-decimal rounding of
\* s times the moment, which is within (s + 1) / 2 units of the fourth decimal
\* of s times the written scale = 1 component
C8_ScaleRounded ==
    Rescaled =>
        /\ SameLayout
        /\ ExactCellAndPositions
        /\ \A r \in 10..(Len(file) - 1), c \in 5..7 :
              2 * Abs(Value(file[r].nums[c]) - scale * Value(Scale1[r].nums[c])) <= scale + 1

\* a rescaled document with a moment component that is not s times the
\* written scale = 1 component
C8_Witness ==
    /\ Rescaled
    /\ Len(positions) = 2
    /\ \E r \in 10..(Len(file) - 1), c \in 5..7 :
          /\ Value(file[r].nums[c]) # scale * Value(Scale1[r].nums[c])
          /\ Value(Scale1[r].nums[c]) # 0

====
